---- MODULE Spec2Model ----
(***************************************************************************)
(* Travel Booking App (src/p.py): a Streamlit script over three MongoDB    *)
(* collections (users, destinations, bookings).                            *)
(*                                                                         *)
(* Every browser session owns a st.session_state and re-executes the whole *)
(* script on each interaction: session initialisation, seeding             *)
(* (create_default_admin, seed_sample_destinations), then the controller,  *)
(* which renders one view and runs the handler of the widget that fired.   *)
(* Sessions run concurrently against the shared store; each pymongo call   *)
(* is atomic, a sequence of calls is not.  A script run is therefore a     *)
(* sequence of steps, one per store call that another session can race.    *)
(* What a run does before its first such call (the user's click, reads of  *)
(* its own session_state, a count of a collection that is already          *)
(* non-empty and can never become empty again) no other session can tell   *)
(* apart from doing it at the moment of that call, and is part of the      *)
(* same step.                                                              *)
(*                                                                         *)
(* Fields no behaviour depends on (created_at, travel_date) are left out   *)
(* of the documents.                                                       *)
(***************************************************************************)
EXTENDS Integers, Sequences, FiniteSets, TLC

VARIABLES
    users,          \* db.users, in natural (insertion) order
    destinations,   \* db.destinations
    bookings,       \* db.bookings
    oidCtr,         \* per collection: number of ObjectIds handed out so far
    session,        \* st.session_state of every session
    pc,             \* position of every session's script run
    view,           \* the view the session's current run has rendered
    event,          \* the submitted form a handler is still working on
    sel,            \* value of the delete/cancel selectbox in the current run
    msg,            \* last st.success / st.error the session's script emitted
    registered,     \* history: (username, password, role) of every successful "create user"
    seedDone,       \* history: some script run has completed the seeding routine
    lateRun         \* history: the session's current run started after seedDone

vars == <<users, destinations, bookings, oidCtr, session, pc, view, event, sel, msg,
          registered, seedDone, lateRun>>

----------------------------------------------------------------------------
(* Bounds and input domains *)

MaxUsers == 2           \* "create user" is not submitted once users holds this many
MaxCreated == 2         \* "confirm booking" is submitted at most this many times

Sessions == {"s1", "s2"}
Roles == {"user", "admin"}
Usernames == {"admin", "alice", "bob"}
Passwords == {"admin123", "pw1"}
BookingIds == {"1f0e3dad", "9b2c77e0"}      \* outcomes of str(uuid.uuid4())[:8]
Picks == {1}            \* positions in the destination listing the widgets pick from

----------------------------------------------------------------------------
(* Helpers *)

Range(f) == {f[i] : i \in DOMAIN f}

RemoveAt(seq, i) == [j \in 1..(Len(seq) - 1) |-> IF j < i THEN seq[j] ELSE seq[j + 1]]

\* str(ObjectId): a string rendering, one per ObjectId
Str(oid) == [hex |-> oid]

\* hashlib.sha256(password.encode("utf-8")).hexdigest(): unsalted, deterministic
hash_password(password) ==
    CASE password = "admin123" -> "240be518fabd2724ddb6f04eeb1da5967448d7e831c08c8fa822809f74c720a9"
      [] password = "pw1"      -> "c592df4a86933b92addc9842402ddf198c638ea9be58916ee6e3734e1e3152f8"
      [] password = ""         -> "e3b0c44298fc1c149afbf4c8996fb92427ae41e4649b934ca495991b7852b855"

\* Python's None
None == [isNone |-> TRUE]

\* collection.find(filter): the documents matching the filter (those of hits,
\* selected at the call) in natural order
Find(hits) == hits

\* collection.find_one(filter): the first matching document, or None
FindOne(hits) == IF hits = <<>> THEN None ELSE hits[1]

\* position of the first document of coll with this booking_id, 0 when none has it
FirstIndex(coll, booking_id) ==
    IF \E i \in DOMAIN coll : coll[i].booking_id = booking_id
    THEN CHOOSE i \in DOMAIN coll :
            /\ coll[i].booking_id = booking_id
            /\ \A j \in 1..(i - 1) : coll[j].booking_id # booking_id
    ELSE 0

\* collection.delete_one({"booking_id": booking_id}): removes the first matching
\* document and reports deleted_count
DeleteOne(coll, booking_id) ==
    LET i == FirstIndex(coll, booking_id)
    IN IF i = 0 THEN [after |-> coll, deleted_count |-> 0]
       ELSE [after |-> RemoveAt(coll, i), deleted_count |-> 1]

NewOid(c) == <<c, oidCtr[c] + 1>>

----------------------------------------------------------------------------
(* Seed data *)

NumSamples == 20

SampleDestinations == <<
    <<"Goa Beach Escape", "Goa", 4999, "Relax on the golden sands of Goa">>,
    <<"Jaipur Heritage Tour", "Jaipur", 5999, "Explore forts and palaces">>,
    <<"Rajasthan Desert Camp", "Jaisalmer", 7999, "Overnight desert camping and cultural night">>,
    <<"Kerala Backwaters", "Alleppey", 6999, "Houseboat cruise through serene backwaters">>,
    <<"Himachal Hill-stay", "Manali", 5499, "Snowy mountains and cosy cafes">>,
    <<"Darjeeling Tea Trails", "Darjeeling", 6499, "Ride the toy train and visit tea gardens">>,
    <<"Andaman Scuba", "Port Blair", 12999, "Scuba diving and water sports">>,
    <<"Varanasi Spiritual Tour", "Varanasi", 3999, "Sunrise by the Ganges and cultural walks">>,
    <<"Goa Adventure", "Goa", 6999, "Water sports and nightlife">>,
    <<"Mumbai City Lights", "Mumbai", 4599, "Explore the city that never sleeps">>,
    <<"Kashmir Valley", "Srinagar", 15999, "Houseboats, shikaras & snowy peaks">>,
    <<"Ladakh Road Trip", "Leh", 18999, "High-altitude lakes and monasteries">>,
    <<"Ooty Nilgiri Escape", "Ooty", 5499, "Tea gardens and toy train rides">>,
    <<"Mysore Palace Tour", "Mysore", 4299, "Palaces, markets and silk">>,
    <<"Pondicherry Quiet Stay", "Pondicherry", 4899, "French quarters and beachside cafes">>,
    <<"Rishikesh Adventure", "Rishikesh", 3999, "White water rafting & yoga">>,
    <<"Sikkim Scenic", "Gangtok", 7999, "Lakes, monasteries and viewpoints">>,
    <<"Hampi Ruins", "Hampi", 3699, "Ancient ruins and boulder landscapes">>,
    <<"Goa Luxury", "Goa", 10999, "Premium resorts and private beaches">>,
    <<"Andhra Temple Tour", "Tirupati", 2999, "Pilgrimage and local cuisine">> >>

DefaultAdmin(oid) ==
    [_id |-> oid, username |-> "admin", password |-> hash_password("admin123"), role |-> "admin"]

SampleDocs(base) ==
    [i \in 1..NumSamples |->
        [_id |-> <<"destinations", base + i>>,
         name |-> SampleDestinations[i][1],
         location |-> SampleDestinations[i][2],
         price |-> SampleDestinations[i][3],
         description |-> SampleDestinations[i][4]]]

----------------------------------------------------------------------------
(* Session state and widget events *)

\* lines 88-90: the keys a fresh session_state holds
FreshSession == [logged_in |-> FALSE, user |-> None]

NoEvent == [kind |-> "none"]
NoSel == [booking_id |-> "", oid |-> <<"none", 0>>]

\* "login_form": Username, Password, Login as
LoginEvents ==
    {[kind |-> "login", username |-> u, password |-> p, role |-> r] :
        u \in Usernames, p \in Passwords, r \in Roles}

\* "create_user": Username, Password, Role
CreateUserEvents ==
    {[kind |-> "create_user", uname |-> u, pwd |-> p, role |-> r] :
        u \in {"", "admin", "alice"}, p \in {"", "pw1"}, r \in Roles}

\* "add_dest": Name, Location, Price, Short description
AddDestEvents ==
    {[kind |-> "add_dest", name |-> n, location |-> "Goa", price |-> 4999, desc |-> "desc"] :
        n \in {"", "Goa"}}

\* "book_form": Full name, Email (the destination is a selectbox over the fresh listing)
BookFormEvents ==
    {[kind |-> "book_form", fullname |-> "Alice", email |-> e] : e \in {"", "a@x.com"}}

----------------------------------------------------------------------------
(* Initial state: an empty database, sessions that have not run the script *)

Init ==
    /\ users = <<>>
    /\ destinations = <<>>
    /\ bookings = <<>>
    /\ oidCtr = [users |-> 0, destinations |-> 0, bookings |-> 0]
    /\ session = [s \in Sessions |-> FreshSession]
    /\ pc = [s \in Sessions |-> "idle"]
    /\ view = [s \in Sessions |-> "none"]
    /\ event = [s \in Sessions |-> NoEvent]
    /\ sel = [s \in Sessions |-> NoSel]
    /\ msg = [s \in Sessions |-> ""]
    /\ registered = {}
    /\ seedDone = FALSE
    /\ lateRun = [s \in Sessions |-> FALSE]

----------------------------------------------------------------------------
(* Seeding and the controller *)
(* Lines 88-95 open every run of the script: session initialisation, then   *)
(* create_default_admin (lines 37-46) and seed_sample_destinations (lines   *)
(* 49-83); lines 320-333 then render one view.                              *)

NeedsAdminAlways == TRUE

\* create_default_admin, line 39: users_coll.count_documents({}) == 0
NeedsAdmin == Len(users) = 0

\* seed_sample_destinations, line 51: dest_coll.count_documents({}) == 0
NeedsDests == Len(destinations) = 0

\* both counts are non-zero: the seeding of this run does nothing, whatever
\* the other sessions do meanwhile (no operation removes a user or a destination)
Seeded == ~NeedsAdmin /\ ~NeedsDests

ViewOfAlwaysAdmin(st) ==
    IF ~st.logged_in THEN "login" ELSE "admin"

\* App controller, lines 321-333: the view the run renders
ViewOf(st) ==
    IF ~st.logged_in THEN "login"
    ELSE IF st.user.role = "admin" THEN "admin" ELSE "traveler"

\* seeding is over: the controller renders the view of session state st and the
\* script ends
Render(s, st) ==
    /\ view' = [view EXCEPT ![s] = ViewOf(st)]
    /\ pc' = [pc EXCEPT ![s] = "idle"]
    /\ seedDone' = TRUE

\* a run of the script that carries no widget event (a page load, or
\* st.experimental_rerun()), up to its first store call that can be raced
RunFrom(s, st) ==
    /\ lateRun' = [lateRun EXCEPT ![s] = seedDone]
    /\ event' = [event EXCEPT ![s] = NoEvent]
    /\ IF NeedsAdmin
       THEN /\ pc' = [pc EXCEPT ![s] = "insAdmin"]
            /\ view' = [view EXCEPT ![s] = "none"]
            /\ UNCHANGED seedDone
       ELSE IF NeedsDests
       THEN /\ pc' = [pc EXCEPT ![s] = "insDests"]
            /\ view' = [view EXCEPT ![s] = "none"]
            /\ UNCHANGED seedDone
       ELSE Render(s, st)

\* a run of the script that carries a widget event and ends in the handler:
\* its seeding found nothing to do
EndRun(s) ==
    /\ pc' = [pc EXCEPT ![s] = "idle"]
    /\ event' = [event EXCEPT ![s] = NoEvent]
    /\ lateRun' = [lateRun EXCEPT ![s] = seedDone]
    /\ UNCHANGED <<view, seedDone>>

\* a widget of view v fires in session s: the view is on screen, and the run
\* the click starts passes seeding without a store write
Fires(s, v) ==
    /\ pc[s] = "idle"
    /\ view[s] = v
    /\ Seeded

\* a page load or a refresh
PageLoad(s) ==
    /\ pc[s] = "idle"
    /\ msg' = [msg EXCEPT ![s] = ""]
    /\ RunFrom(s, session[s])
    /\ UNCHANGED <<users, destinations, bookings, oidCtr, session, sel,
                   registered>>

\* create_default_admin, lines 40-46: users_coll.insert_one(admin); then line 51
SeedInsertAdmin(s) ==
    /\ pc[s] = "insAdmin"
    /\ users' = Append(users, DefaultAdmin(NewOid("users")))
    /\ oidCtr' = [oidCtr EXCEPT !.users = @ + 1]
    /\ IF NeedsDests
       THEN /\ pc' = [pc EXCEPT ![s] = "seedDests"]
            /\ UNCHANGED <<view, seedDone>>
       ELSE Render(s, session[s])
    /\ UNCHANGED <<destinations, bookings, session, event, sel, msg,
                   registered, lateRun>>

\* seed_sample_destinations, line 51, when the count was zero at the previous step
SeedCountDests(s) ==
    /\ pc[s] = "seedDests"
    /\ IF NeedsDests
       THEN /\ pc' = [pc EXCEPT ![s] = "insDests"]
            /\ UNCHANGED <<view, seedDone>>
       ELSE Render(s, session[s])
    /\ UNCHANGED <<users, destinations, bookings, oidCtr, session, event, sel, msg,
                   registered, lateRun>>

\* seed_sample_destinations, lines 52-83: dest_coll.insert_many(sample)
SeedInsertDests(s) ==
    /\ pc[s] = "insDests"
    /\ destinations' = destinations \o SampleDocs(oidCtr.destinations)
    /\ oidCtr' = [oidCtr EXCEPT !.destinations = @ + NumSamples]
    /\ Render(s, session[s])
    /\ UNCHANGED <<users, bookings, session, event, sel, msg,
                   registered, lateRun>>

----------------------------------------------------------------------------
(* login_form (lines 99-121) and logout (lines 124-128) *)

LoginWith(s, e) ==
    /\ Fires(s, "login")
    /\ LET user == FindOne(SelectSeq(users, LAMBDA d : d.username = e.username /\ d.role = e.role))
       IN IF user # None /\ user.password = hash_password(e.password)
          THEN LET st == [session[s] EXCEPT
                            !.logged_in = TRUE,
                            !.user = [username |-> e.username, role |-> e.role,
                                      _id |-> Str(user._id)]]
               IN /\ session' = [session EXCEPT ![s] = st]
                  /\ msg' = [msg EXCEPT ![s] = "Logged in"]
                  /\ RunFrom(s, st)
          ELSE /\ msg' = [msg EXCEPT ![s] = "Invalid credentials"]
               /\ EndRun(s)
               /\ UNCHANGED session
    /\ UNCHANGED <<users, destinations, bookings, oidCtr, sel, registered>>

Login(s) == \E e \in LoginEvents : LoginWith(s, e)

\* lines 125-126
LoggedOut(st) == [st EXCEPT !.logged_in = FALSE, !.user = None]

Logout(s) ==
    /\ \/ Fires(s, "admin")
       \/ Fires(s, "traveler")
    /\ session' = [session EXCEPT ![s] = LoggedOut(session[s])]
    /\ msg' = [msg EXCEPT ![s] = "Logged out successfully"]
    /\ RunFrom(s, LoggedOut(session[s]))
    /\ UNCHANGED <<users, destinations, bookings, oidCtr, sel, registered>>

----------------------------------------------------------------------------
(* admin_page: lines 133-232 *)

\* which submissions the model still issues: no further user once users holds
\* MaxUsers, each destination form once, MaxCreated bookings in all
Admissible(e) ==
    CASE e.kind = "create_user" -> Len(users) < MaxUsers
      [] e.kind = "add_dest"    -> \A d \in Range(destinations) : d.name # e.name
      [] e.kind = "book_form"   -> oidCtr.bookings < MaxCreated
      [] OTHER                  -> TRUE

CreateUserSubmitNoCheck(s, e) ==
    /\ Fires(s, "admin") /\ Admissible(e)
    /\ pc' = [pc EXCEPT ![s] = "insUser"]
    /\ event' = [event EXCEPT ![s] = e]
    /\ msg' = [msg EXCEPT ![s] = ""]
    /\ lateRun' = [lateRun EXCEPT ![s] = seedDone]
    /\ UNCHANGED <<view, seedDone>>
    /\ UNCHANGED <<users, destinations, bookings, oidCtr, session, sel,
                   registered>>

\* "create_user" form, lines 157-163: validation and users.find_one
CreateUserSubmit(s, e) ==
    /\ Fires(s, "admin") /\ Admissible(e)
    /\ IF e.uname = "" \/ e.pwd = ""
       THEN /\ msg' = [msg EXCEPT ![s] = "Username and password required"]
            /\ EndRun(s)
       ELSE IF FindOne(SelectSeq(users, LAMBDA d : d.username = e.uname)) # None
       THEN /\ msg' = [msg EXCEPT ![s] = "Username already exists"]
            /\ EndRun(s)
       ELSE /\ pc' = [pc EXCEPT ![s] = "insUser"]
            /\ event' = [event EXCEPT ![s] = e]
            /\ msg' = [msg EXCEPT ![s] = ""]
            /\ lateRun' = [lateRun EXCEPT ![s] = seedDone]
            /\ UNCHANGED <<view, seedDone>>
    /\ UNCHANGED <<users, destinations, bookings, oidCtr, session, sel,
                   registered>>

CreateUser(s) == \E e \in CreateUserEvents : CreateUserSubmit(s, e)

\* "create_user" form, lines 165-171: users.insert_one
CreateUserInsert(s) ==
    /\ pc[s] = "insUser"
    /\ LET e == event[s] IN
       /\ users' = Append(users, [_id |-> NewOid("users"), username |-> e.uname,
                                  password |-> hash_password(e.pwd), role |-> e.role])
       /\ registered' = registered \cup {<<e.uname, e.pwd, e.role>>}
    /\ oidCtr' = [oidCtr EXCEPT !.users = @ + 1]
    /\ msg' = [msg EXCEPT ![s] = "User created"]
    /\ EndRun(s)
    /\ UNCHANGED <<destinations, bookings, session, sel>>

\* "add_dest" form, lines 193-204
AddDest(s) ==
    /\ Fires(s, "admin")
    /\ \E e \in AddDestEvents :
          /\ Admissible(e)
          /\ IF e.name = "" \/ e.location = ""
             THEN /\ msg' = [msg EXCEPT ![s] = "Name and location required"]
                  /\ UNCHANGED <<destinations, oidCtr>>
             ELSE /\ destinations' = Append(destinations,
                          [_id |-> NewOid("destinations"), name |-> e.name,
                           location |-> e.location, price |-> e.price,
                           description |-> e.desc])
                  /\ oidCtr' = [oidCtr EXCEPT !.destinations = @ + 1]
                  /\ msg' = [msg EXCEPT ![s] = "Destination added"]
    /\ EndRun(s)
    /\ UNCHANGED <<users, bookings, session, sel, registered>>

\* the selectbox over the booking_ids of a fresh listing (lines 223, 304) and
\* the button under it: nothing to pick when the listing is empty
PickFrom(s, listing, next) ==
    /\ msg' = [msg EXCEPT ![s] = ""]
    /\ lateRun' = [lateRun EXCEPT ![s] = seedDone]
    /\ UNCHANGED <<view, seedDone, event>>
    /\ IF listing = <<>>
       THEN /\ pc' = [pc EXCEPT ![s] = "idle"]
            /\ UNCHANGED sel
       ELSE /\ \E i \in DOMAIN listing :
                  sel' = [sel EXCEPT ![s] = [booking_id |-> listing[i].booking_id,
                                             oid |-> listing[i]._id]]
            /\ pc' = [pc EXCEPT ![s] = next]

\* Bookings tab, lines 216-224: db.bookings.find({})
DeleteFind(s) ==
    /\ Fires(s, "admin")
    /\ PickFrom(s, Find(bookings), "delBooking")
    /\ UNCHANGED <<users, destinations, bookings, oidCtr, session,
                   registered>>

RemoveBookingAll(s, ok, failed) ==
    LET hit == \E b \in Range(bookings) : b.booking_id = sel[s].booking_id
    IN /\ bookings' = SelectSeq(bookings, LAMBDA b : b.booking_id # sel[s].booking_id)
       /\ sel' = [sel EXCEPT ![s] = NoSel]
       /\ IF hit
          THEN /\ msg' = [msg EXCEPT ![s] = ok]
               /\ RunFrom(s, session[s])
          ELSE /\ msg' = [msg EXCEPT ![s] = failed]
               /\ EndRun(s)

\* db.bookings.delete_one({"booking_id": ...}) and the deleted_count branch
\* (lines 225-230, 306-311)
RemoveBooking(s, ok, failed) ==
    LET res == DeleteOne(bookings, sel[s].booking_id)
    IN /\ bookings' = res.after
       /\ sel' = [sel EXCEPT ![s] = NoSel]
       /\ IF res.deleted_count > 0
          THEN /\ msg' = [msg EXCEPT ![s] = ok]
               /\ RunFrom(s, session[s])
          ELSE /\ msg' = [msg EXCEPT ![s] = failed]
               /\ EndRun(s)

\* Bookings tab, lines 224-230
DeleteBooking(s) ==
    /\ pc[s] = "delBooking"
    /\ RemoveBooking(s, "Booking deleted", "Failed to delete")
    /\ UNCHANGED <<users, destinations, oidCtr, session, registered>>

----------------------------------------------------------------------------
(* user_page: lines 237-315 *)

\* the three keys the "Book" button of destination d sets, lines 257-259
Selected(d) ==
    [k \in {"_selected_dest", "_selected_dest_name", "_selected_dest_price"} |->
        CASE k = "_selected_dest" -> Str(d._id)
          [] k = "_selected_dest_name" -> d.name
          [] k = "_selected_dest_price" -> d.price]

\* "Book" button of a destination card, lines 243-260
BookButton(s) ==
    /\ Fires(s, "traveler")
    /\ \E i \in Picks \cap DOMAIN destinations :
          LET st == Selected(destinations[i]) @@ session[s]
          IN /\ session' = [session EXCEPT ![s] = st]
             /\ RunFrom(s, st)
    /\ msg' = [msg EXCEPT ![s] = ""]
    /\ UNCHANGED <<users, destinations, bookings, oidCtr, sel, registered>>

\* the selectbox label of a destination, line 269
Label(d) == <<d.name, " - Rs", d.price>>

\* line 285: the "user" field of a new booking
Owner(s, e) == IF session[s].user # None THEN session[s].user.username ELSE None

\* "book_form", lines 266-291, submitted with form e, the destination at
\* position pick of the listing (0: the listing is empty and sel is None), and
\* id what str(uuid.uuid4())[:8] yields
BookFormWith(s, e, pick, id) ==
    /\ Fires(s, "traveler") /\ Admissible(e)
    /\ LET dests == Find(destinations)
       IN /\ pick \in (IF dests = <<>> THEN {0} ELSE Picks \cap DOMAIN dests)
          /\ IF e.fullname = "" \/ e.email = "" \/ pick = 0
             THEN /\ msg' = [msg EXCEPT ![s] = "Please fill required fields"]
                  /\ UNCHANGED <<bookings, oidCtr>>
             ELSE /\ bookings' = Append(bookings,
                       [_id |-> NewOid("bookings"), name |-> e.fullname, email |-> e.email,
                        destination_id |-> Str(dests[pick]._id),
                        destination_name |-> Label(dests[pick]),
                        user |-> Owner(s, e),
                        booking_id |-> id])
                  /\ oidCtr' = [oidCtr EXCEPT !.bookings = @ + 1]
                  /\ msg' = [msg EXCEPT ![s] = "Booking confirmed"]
    /\ EndRun(s)
    /\ UNCHANGED <<users, destinations, session, sel, registered>>

BookForm(s) ==
    \E e \in BookFormEvents, pick \in Picks \cup {0}, id \in BookingIds :
        BookFormWith(s, e, pick, id)

\* the My Bookings listing of username over a bookings collection, line 297:
\* find({"user": username})
ListingIn(coll, username) == Find(SelectSeq(coll, LAMBDA b : b.user = username))

MyBookings(username) == ListingIn(bookings, username)

\* My Bookings tab, lines 295-305
CancelFind(s) ==
    /\ Fires(s, "traveler")
    /\ session[s].user # None
    /\ PickFrom(s, MyBookings(session[s].user.username), "cancelBooking")
    /\ UNCHANGED <<users, destinations, bookings, oidCtr, session,
                   registered>>

\* My Bookings tab, lines 305-311
CancelBooking(s) ==
    /\ pc[s] = "cancelBooking"
    /\ RemoveBooking(s, "Booking cancelled", "Failed to cancel")
    /\ UNCHANGED <<users, destinations, oidCtr, session, registered>>

----------------------------------------------------------------------------
(* Accounts, seeding and sessions, from an empty database *)

Next ==
    \E s \in Sessions :
        \/ PageLoad(s)
        \/ SeedInsertAdmin(s)
        \/ SeedCountDests(s)
        \/ SeedInsertDests(s)
        \/ Login(s)
        \/ Logout(s)
        \/ CreateUser(s)
        \/ CreateUserInsert(s)
        \/ AddDest(s)
        \/ BookButton(s)

Spec == Init /\ [][Next]_vars

----------------------------------------------------------------------------
(* Bookings, from a seeded database that holds the admin and two travelers *)

InitBookings ==
    /\ users = << DefaultAdmin(<<"users", 1>>),
                  [_id |-> <<"users", 2>>, username |-> "alice",
                   password |-> hash_password("pw1"), role |-> "user"],
                  [_id |-> <<"users", 3>>, username |-> "bob",
                   password |-> hash_password("pw1"), role |-> "user"] >>
    /\ destinations = SampleDocs(0)
    /\ bookings = <<>>
    /\ oidCtr = [users |-> 3, destinations |-> NumSamples, bookings |-> 0]
    /\ session = [s \in Sessions |-> FreshSession]
    /\ pc = [s \in Sessions |-> "idle"]
    /\ view = [s \in Sessions |-> "none"]
    /\ event = [s \in Sessions |-> NoEvent]
    /\ sel = [s \in Sessions |-> NoSel]
    /\ msg = [s \in Sessions |-> ""]
    /\ registered = {<<"alice", "pw1", "user">>, <<"bob", "pw1", "user">>}
    /\ seedDone = TRUE
    /\ lateRun = [s \in Sessions |-> FALSE]

NextBookings ==
    \E s \in Sessions :
        \/ PageLoad(s)
        \/ Login(s)
        \/ Logout(s)
        \/ BookForm(s)
        \/ CancelFind(s)
        \/ CancelBooking(s)
        \/ DeleteFind(s)
        \/ DeleteBooking(s)

SpecBookings == InitBookings /\ [][NextBookings]_vars

----------------------------------------------------------------------------
(* Properties *)

\* the session is Anonymous
Anonymous(st) == st.logged_in = FALSE /\ st.user = None

\* the session is Authenticated as username u with role r
Authenticated(st, u, r) ==
    st.logged_in = TRUE /\ st.user # None /\ st.user.username = u /\ st.user.role = r

Counts == <<Len(users), Len(destinations), Len(bookings)>>

\* what Fires rests on: a view is on screen only once both collections are
\* non-empty, so the seeding of a run that a widget starts writes nothing
ViewImpliesSeeded == \A s \in Sessions : view[s] # "none" => Seeded

\* the documents of coll that are no longer in coll2
Removed(coll, coll2) == {b \in Range(coll) : \A c \in Range(coll2) : c._id # b._id}

\* C1, as claimed: once "create user" has succeeded for (u, p, r), a login
\* attempt with username u and password p makes the session Authenticated as u
\* with role r, and a login attempt with username u and another password leaves
\* it Anonymous.
C1_LoginAfterCreate ==
    [][\A s \in Sessions, e \in LoginEvents :
          LoginWith(s, e) =>
             \A reg \in registered :
                reg[1] = e.username =>
                   IF reg[2] = e.password
                   THEN Authenticated(session'[s], reg[1], reg[3])
                   ELSE Anonymous(session'[s])]_vars

\* C2, as claimed: in every reachable state no two records of users have the
\* same username.
C2_UsernamesUnique ==
    \A i, j \in DOMAIN users : users[i].username = users[j].username => i = j

\* C3, as claimed: a "create user" submission whose username already exists is
\* rejected with the duplicate-username error and leaves users unchanged,
\* whatever password and role are submitted.
C3_DuplicateError ==
    [][\A s \in Sessions, e \in CreateUserEvents :
          (CreateUserSubmit(s, e) /\ \E d \in Range(users) : d.username = e.uname) =>
             /\ msg'[s] = "Username already exists"
             /\ users' = users]_vars

\* C3, amended: a "create user" submission whose username already exists is
\* rejected and leaves users unchanged (no insert follows), whatever password
\* and role are submitted; the error is the duplicate-username error when the
\* password is non-empty and the required-fields error when it is empty.
C3_DuplicateRejected ==
    [][\A s \in Sessions, e \in CreateUserEvents :
          (CreateUserSubmit(s, e) /\ \E d \in Range(users) : d.username = e.uname) =>
             /\ msg'[s] = IF e.pwd = "" THEN "Username and password required"
                          ELSE "Username already exists"
             /\ pc'[s] = "idle"
             /\ users' = users]_vars

\* a duplicate submission has been rejected, with users holding that username
C3_Witness ==
    \E s \in Sessions :
        /\ msg[s] = "Username already exists"
        /\ pc[s] = "idle"
        /\ view[s] = "admin"
        /\ users # <<>>

\* C4: once some run has completed the seeding routine, no step of the seeding
\* of a run that starts later changes the count of users, destinations or
\* bookings.
C4_SeedingIdempotent ==
    [][\A s \in Sessions :
          (/\ PageLoad(s) \/ SeedInsertAdmin(s) \/ SeedCountDests(s) \/ SeedInsertDests(s)
           /\ lateRun'[s])
          => Counts' = Counts]_vars

\* a run that started after the seeding was complete has gone through its own
\* seeding and rendered a view
C4_Witness ==
    \E s \in Sessions :
        lateRun[s] /\ pc[s] = "idle" /\ view[s] # "none" /\ Len(users) > 0
                   /\ Len(destinations) >= NumSamples

\* C5: "Cancel booking" and "Delete booking": when no booking has the selected
\* booking_id the action reports failure and bookings is unchanged; when one
\* has, exactly one booking, with that booking_id, is removed and success is
\* reported; users and destinations are unchanged either way.
C5_Removal ==
    [][\A s \in Sessions :
          (pc[s] \in {"cancelBooking", "delBooking"} /\ pc'[s] # pc[s]) =>
             LET hits == {i \in DOMAIN bookings : bookings[i].booking_id = sel[s].booking_id}
                 cancel == pc[s] = "cancelBooking"
             IN /\ users' = users
                /\ destinations' = destinations
                /\ IF hits = {}
                   THEN /\ bookings' = bookings
                        /\ msg'[s] = IF cancel THEN "Failed to cancel" ELSE "Failed to delete"
                   ELSE /\ \E i \in hits : bookings' = RemoveAt(bookings, i)
                        /\ msg'[s] = IF cancel THEN "Booking cancelled" ELSE "Booking deleted"]_vars

\* a cancel has removed a booking, and a delete of the same booking, begun
\* before, has then found nothing to remove
C5_Witness ==
    \E s, t \in Sessions :
        /\ msg[s] = "Booking cancelled"
        /\ msg[t] = "Failed to delete"
        /\ oidCtr.bookings > Len(bookings)

\* C6, as claimed: in every reachable state the bookings have pairwise distinct
\* booking_id values.
C6_BookingIdsUnique ==
    \A i, j \in DOMAIN bookings : bookings[i].booking_id = bookings[j].booking_id => i = j

\* C7, as claimed: a "Cancel booking" performed in a session authenticated as
\* username u never removes a booking whose user field differs from u.
C7_CancelOwnOnly ==
    [][\A s \in Sessions :
          (pc[s] = "cancelBooking" /\ pc'[s] # pc[s]) =>
             \A b \in Removed(bookings, bookings') : b.user = session[s].user.username]_vars

\* C8, as claimed: after a logout the session is Anonymous and holds nothing
\* set during the session: its state is that of a fresh session.
C8_LogoutClears ==
    \A s \in Sessions : msg[s] = "Logged out successfully" => session[s] = FreshSession

\* C9, as claimed: the My Bookings listing of u holds exactly the bookings
\* created by sessions of u and not cancelled or deleted since: a booking created
\* by u enters the listing of u once, with the destination chosen, and no other
\* listing; a booking whose cancellation succeeded is no longer in the listing,
\* and a cancellation by u changes no other user's listing.
C9_MyBookings ==
    [][\A s \in Sessions :
          /\ \A e \in BookFormEvents, pick \in Picks, id \in BookingIds :
                (BookFormWith(s, e, pick, id) /\ bookings' # bookings) =>
                   LET u == session[s].user.username
                       new == bookings'[Len(bookings')]
                   IN /\ ListingIn(bookings', u) = Append(ListingIn(bookings, u), new)
                      /\ new.destination_id = Str(destinations[pick]._id)
                      /\ \A v \in Usernames \ {u} :
                            ListingIn(bookings', v) = ListingIn(bookings, v)
          /\ (pc[s] = "cancelBooking" /\ msg'[s] = "Booking cancelled") =>
                LET u == session[s].user.username
                IN /\ \A b \in Range(ListingIn(bookings', u)) : b._id # sel[s].oid
                   /\ \A v \in Usernames \ {u} :
                         ListingIn(bookings', v) = ListingIn(bookings, v)]_vars

====
